---- MODULE Spec2Model ----
(***************************************************************************)
(* Car_price_prediction/app.py: a Streamlit script that loads a cached     *)
(* model/dataset pair, derives the option lists of six categorical inputs  *)
(* from the dataset, renders eleven inputs and a "Predict Price" button,   *)
(* and on a click hands one assembled record to model.predict.             *)
(*                                                                         *)
(* A script run is the sequence  RunLoad (line 28), RunForm (lines         *)
(* 32-121), RunButton (lines 124-146), Predict (lines 148-154).  Streamlit *)
(* reruns the whole script on every interaction; interactions arrive       *)
(* between runs.  Mileage is kept in hundredths of a kmpl.                 *)
(***************************************************************************)
EXTENDS Integers, Sequences, FiniteSets, TLC

VARIABLES
  disk,        \* the two files beside the script
  cache,       \* st.cache_resource entry of load_model_and_data
  loaded,      \* the pair exactly as load_model_and_data returned it
  loads,       \* how often the body of load_model_and_data returned a pair
  widgets,     \* session widget state: the value each input control holds
  opts,        \* categorical_cols_info of the latest script run
  clicked,     \* value st.button returns in the current run
  pc,          \* position of the current script run
  view,        \* what the current script run has rendered so far
  input_data,  \* the record handed to model.predict in the current run
  calls,       \* model.predict invocations in the current run
  attempts,    \* executions of load_model_and_data's body in the current run
  edits        \* widget changes made by the user so far

vars == <<disk, cache, loaded, loads, widgets, opts, clicked, pc, view,
          input_data, calls, attempts, edits>>

-----------------------------------------------------------------------------
(* Bounds *)

MaxEdits == 2
MaxRows == 3

-----------------------------------------------------------------------------
(* Literals of the script *)

MinYear == 1995
MaxYear == 2023
DefaultYear == 2015
MinMileage == 500
MaxMileage == 3500
DefaultMileage == 1800
MinEngine == 800
MaxEngine == 5000
DefaultEngine == 1500
MinAccidents == 0
MaxAccidents == 5
DefaultAccidents == 0
ReferenceYear == 2025

OwnerOptions == <<1, 2, 3, 4, 5>>

CategoricalCols ==
  <<"fuel_type", "brand", "transmission", "color", "service_history", "insurance_valid">>

NumericInputs == <<"make_year", "mileage_kmpl", "engine_cc", "owner_count", "accidents_reported">>

\* The input controls in the order the script creates them.
InputOrder == NumericInputs \o CategoricalCols

Columns ==
  <<"car_age", "mileage_kmpl", "engine_cc", "fuel_type", "owner_count",
    "brand", "transmission", "color", "service_history",
    "accidents_reported", "insurance_valid">>

-----------------------------------------------------------------------------
(* Values *)

Range(s) == {s[i] : i \in DOMAIN s}

\* A missing cell of a DataFrame (float nan).
NaN == "nan"

\* Cell texts pandas.read_csv reads as missing.
NaValues == {"", "None", "nan", "NA", "NaN", "N/A", "NULL", "null", "n/a", "#N/A"}

\* Unicode code points of the labels used as cell values.
CodePoints ==
  [Audi |-> <<65, 117, 100, 105>>,
   BMW |-> <<66, 77, 87>>,
   Petrol |-> <<80, 101, 116, 114, 111, 108>>,
   Diesel |-> <<68, 105, 101, 115, 101, 108>>,
   Manual |-> <<77, 97, 110, 117, 97, 108>>,
   Automatic |-> <<65, 117, 116, 111, 109, 97, 116, 105, 99>>,
   Red |-> <<82, 101, 100>>,
   Blue |-> <<66, 108, 117, 101>>,
   Full |-> <<70, 117, 108, 108>>,
   Partial |-> <<80, 97, 114, 116, 105, 97, 108>>,
   None |-> <<78, 111, 110, 101>>,
   Yes |-> <<89, 101, 115>>,
   No |-> <<78, 111>>]

Labels == DOMAIN CodePoints

\* Python's str.__lt__: lexicographic on code points.
StrLess(a, b) ==
  LET x == CodePoints[a]
      y == CodePoints[b]
  IN \E k \in 1..(Len(x) + 1) :
       /\ \A j \in 1..(k - 1) : j <= Len(y) /\ x[j] = y[j]
       /\ \/ k > Len(x) /\ k <= Len(y)
          \/ k <= Len(x) /\ k <= Len(y) /\ x[k] < y[k]

-----------------------------------------------------------------------------
(* Exceptions *)

\* The part of Python's exception hierarchy the script meets.
Parent ==
  [BaseException |-> "BaseException",
   Exception |-> "BaseException",
   OSError |-> "Exception",
   FileNotFoundError |-> "OSError",
   UnpicklingError |-> "Exception",
   ParserError |-> "ValueError",
   ValueError |-> "Exception",
   TypeError |-> "Exception",
   LookupError |-> "Exception",
   IndexError |-> "LookupError",
   KeyError |-> "LookupError",
   CatBoostError |-> "Exception",
   MemoryError |-> "Exception"]

RECURSIVE IsInstance(_, _)
IsInstance(exc, cls) ==
  IF exc = cls THEN TRUE
  ELSE IF Parent[exc] = exc THEN FALSE
  ELSE IsInstance(Parent[exc], cls)

NoExc == "none"

-----------------------------------------------------------------------------
(* load_model_and_data, lines 10-26 *)

TheModel == "catboost_model"
NoPair == [model |-> "none", df |-> <<>>]

\* pandas.read_csv on one cell: the NA texts become missing values.
ReadCsvCell(text) == IF text \in NaValues THEN NaN ELSE text

\* pandas.read_csv('used_car_price.csv'), line 18.
ReadCsv(rows) ==
  [i \in 1..Len(rows) |-> [c \in Range(CategoricalCols) |-> ReadCsvCell(rows[i][c])]]

\* What the try block of lines 16-19 raises, if anything: joblib.load runs first.
LoadRaises(d) ==
  IF d.model = "missing" THEN "FileNotFoundError"
  ELSE IF d.model = "corrupt" THEN "UnpicklingError"
  ELSE IF d.csv = "missing" THEN "FileNotFoundError"
  ELSE IF d.csv = "corrupt" THEN "ParserError"
  ELSE NoExc

\* LoadHandler without the st.stop() calls.
LoadHandler_NoStop(exc) ==
  IF IsInstance(exc, "FileNotFoundError")
  THEN [errors |-> <<"not found", "ensure both files">>, stop |-> FALSE, escaped |-> NoExc]
  ELSE IF IsInstance(exc, "Exception")
  THEN [errors |-> <<"Error loading model or data">>, stop |-> FALSE, escaped |-> NoExc]
  ELSE [errors |-> <<>>, stop |-> FALSE, escaped |-> exc]

\* The except clauses of lines 20-26: the messages shown, and st.stop().
LoadHandler(exc) ==
  IF IsInstance(exc, "FileNotFoundError")
  THEN [errors |-> <<"not found", "ensure both files">>, stop |-> TRUE, escaped |-> NoExc]
  ELSE IF IsInstance(exc, "Exception")
  THEN [errors |-> <<"Error loading model or data">>, stop |-> TRUE, escaped |-> NoExc]
  ELSE [errors |-> <<>>, stop |-> FALSE, escaped |-> exc]

load_model_and_data(d) ==
  LET exc == LoadRaises(d)
  IN IF exc = NoExc
     THEN [pair |-> [model |-> TheModel, df |-> ReadCsv(d.rows)],
           errors |-> <<>>, stop |-> FALSE, escaped |-> NoExc]
     ELSE [pair |-> NoPair] @@ LoadHandler(exc)

-----------------------------------------------------------------------------
(* categorical_cols_info, lines 30-41 *)

\* fillna applied to the whole frame instead of the one column.
fillna_AllColumns(df) ==
  [i \in 1..Len(df) |->
     [c \in DOMAIN df[i] |-> IF df[i][c] = NaN THEN "None" ELSE df[i][c]]]

\* df_original['service_history'].fillna("None", inplace=True), line 32.
fillna(df) ==
  [i \in 1..Len(df) |->
     [df[i] EXCEPT !["service_history"] = IF @ = NaN THEN "None" ELSE @]]

\* Series.unique().tolist(): the distinct values in order of first appearance.
RECURSIVE UniqueOf(_, _, _)
UniqueOf(df, col, i) ==
  IF i = 0 THEN <<>>
  ELSE LET before == UniqueOf(df, col, i - 1)
           v == df[i][col]
       IN IF v \in Range(before) THEN before ELSE Append(before, v)

unique(df, col) == UniqueOf(df, col, Len(df))

\* sorted() compares a str with the float nan as soon as the list holds both.
SortedRaises(l) == Len(l) >= 2 /\ NaN \in Range(l)

\* Insertion of v into an ascending list.
RECURSIVE Insert(_, _)
Insert(l, v) ==
  IF l = <<>> THEN <<v>>
  ELSE IF StrLess(v, Head(l)) THEN <<v>> \o l
  ELSE <<Head(l)>> \o Insert(Tail(l), v)

\* sorted that leaves the list in the order of first appearance.
sorted_Unsorted(l) == l

\* sorted(l) for a list on which it does not raise.
RECURSIVE sorted(_)
sorted(l) ==
  IF Len(l) <= 1 THEN l
  ELSE Insert(sorted(SubSeq(l, 1, Len(l) - 1)), l[Len(l)])

NoOpts == [c \in Range(CategoricalCols) |-> <<>>]

\* Lines 34-41: the dict, or the TypeError of the first sorted() that raises.
categorical_cols_info(df) ==
  IF \E c \in Range(CategoricalCols) : SortedRaises(unique(df, c))
  THEN [info |-> NoOpts, escaped |-> "TypeError"]
  ELSE [info |-> [c \in Range(CategoricalCols) |-> sorted(unique(df, c))],
        escaped |-> NoExc]


-----------------------------------------------------------------------------
(* Input fields, lines 95-121 *)

\* The value of a selectbox that has no option to select.
PyNone == "py_None"

\* A categorical control the session has not created yet.
Unset == "unset"

\* Domain with a Make Year input that accepts one year more.
Domain_YearTooLate(name, info) ==
  CASE name = "make_year" -> MinYear..(MaxYear + 1)
    [] name = "mileage_kmpl" -> MinMileage..MaxMileage
    [] name = "engine_cc" -> MinEngine..MaxEngine
    [] name = "owner_count" -> Range(OwnerOptions)
    [] name = "accidents_reported" -> MinAccidents..MaxAccidents
    [] OTHER -> Range(info[name])

\* The min_value/max_value of the number inputs and the options of the
\* selectboxes: the values a control can hold.
Domain(name, info) ==
  CASE name = "make_year" -> MinYear..MaxYear
    [] name = "mileage_kmpl" -> MinMileage..MaxMileage
    [] name = "engine_cc" -> MinEngine..MaxEngine
    [] name = "owner_count" -> Range(OwnerOptions)
    [] name = "accidents_reported" -> MinAccidents..MaxAccidents
    [] OTHER -> Range(info[name])

\* list.index(x) raises ValueError when x is not in the list.
IndexRaises(l, x) == x \notin Range(l)

\* st.selectbox(options=l, index=0) on a control the session does not hold yet.
FirstOption(l) == IF l = <<>> THEN PyNone ELSE l[1]

\* DefaultOf with index=0 for every selectbox.
DefaultOf_FirstOption(name, info) == FirstOption(info[name])

\* The selection a categorical control starts with (the index= argument).
DefaultOf(name, info) ==
  CASE name = "service_history" -> "None"
    [] name = "insurance_valid" -> "Yes"
    [] OTHER -> FirstOption(info[name])

\* How many controls lines 98-121 create before one of them raises.
RenderedCount(info) ==
  IF IndexRaises(info["service_history"], "None") THEN Len(InputOrder) - 2
  ELSE IF IndexRaises(info["insurance_valid"], "Yes") THEN Len(InputOrder) - 1
  ELSE Len(InputOrder)

\* Lines 98-121: every control keeps the value the session holds for it, a
\* control created now takes its default; the index() calls of lines 118 and 120
\* may raise.
RenderInputs(info, w) ==
  LET n == RenderedCount(info)
      shown == {InputOrder[i] : i \in 1..n}
  IN [widgets |-> [name \in DOMAIN w |->
                     IF name \in shown /\ name \in Range(CategoricalCols) /\ w[name] = Unset
                     THEN DefaultOf(name, info) ELSE w[name]],
      inputs |-> shown,
      escaped |-> IF n < Len(InputOrder) THEN "ValueError" ELSE NoExc]

\* Session widget state before the first script run.
NewWidgets ==
  [make_year |-> DefaultYear, mileage_kmpl |-> DefaultMileage,
   engine_cc |-> DefaultEngine, owner_count |-> OwnerOptions[1],
   accidents_reported |-> DefaultAccidents,
   fuel_type |-> Unset, brand |-> Unset, transmission |-> Unset,
   color |-> Unset, service_history |-> Unset, insurance_valid |-> Unset]

-----------------------------------------------------------------------------
(* Predict Price button handler, lines 124-154 *)

\* car_age counted from the year before the reference year.
car_age_OffByOne(make_year) == ReferenceYear - 1 - make_year

\* Line 126.
car_age(make_year) == ReferenceYear - make_year

\* RowValues with owner_count and accidents_reported exchanged.
RowValues_Exchanged(w) ==
  <<ReferenceYear - w.make_year, w.mileage_kmpl, w.engine_cc, w.fuel_type,
    w.accidents_reported, w.brand, w.transmission, w.color, w.service_history,
    w.owner_count, w.insurance_valid>>

\* The row of lines 131-141.
RowValues(w) ==
  <<car_age(w.make_year), w.mileage_kmpl, w.engine_cc, w.fuel_type,
    w.owner_count, w.brand, w.transmission, w.color, w.service_history,
    w.accidents_reported, w.insurance_valid>>

\* pd.DataFrame([row], columns=cols), lines 130-146: one named field per position.
DataFrame(row, cols) ==
  [i \in 1..Len(cols) |-> [name |-> cols[i], value |-> row[i]]]

InputData(w) == DataFrame(RowValues(w), Columns)

\* What model.predict may do: return an array, or raise an error.
PredictErrors == {"ValueError", "TypeError", "KeyError", "CatBoostError", "MemoryError"}

PredictOutcomes ==
  {[kind |-> "return", value |-> v] : v \in {"float_array", "empty_array", "str_array"}}
    \cup {[kind |-> "raise", value |-> e] : e \in PredictErrors}

\* What the try body of lines 150-151 raises: from predict, from [0] on an
\* empty result, or from the .2f format of a value that is no number.
TryRaises(outcome) ==
  IF outcome.kind = "raise" THEN outcome.value
  ELSE IF outcome.value = "empty_array" THEN "IndexError"
  ELSE IF outcome.value = "str_array" THEN "ValueError"
  ELSE NoExc

\* PredictHandler with "except ValueError" in place of "except Exception".
PredictHandler_ExceptValueError(outcome) ==
  LET exc == TryRaises(outcome)
  IN IF exc = NoExc
     THEN [prediction |-> TRUE, errors |-> <<>>, escaped |-> NoExc]
     ELSE IF IsInstance(exc, "ValueError")
     THEN [prediction |-> FALSE, errors |-> <<"An error occurred during prediction">>,
           escaped |-> NoExc]
     ELSE [prediction |-> FALSE, errors |-> <<>>, escaped |-> exc]

\* Lines 149-154: the prediction box, or the st.error message of the except
\* clause (followed by the "Please check your input values." line).
PredictHandler(outcome) ==
  LET exc == TryRaises(outcome)
  IN IF exc = NoExc
     THEN [prediction |-> TRUE, errors |-> <<>>, escaped |-> NoExc]
     ELSE IF IsInstance(exc, "Exception")
     THEN [prediction |-> FALSE, errors |-> <<"An error occurred during prediction">>,
           escaped |-> NoExc]
     ELSE [prediction |-> FALSE, errors |-> <<>>, escaped |-> exc]

-----------------------------------------------------------------------------
(* Inputs of the model: the files on disk and what the user tries to enter *)

Row(f, b, t, c, s, i) ==
  [fuel_type |-> f, brand |-> b, transmission |-> t, color |-> c,
   service_history |-> s, insurance_valid |-> i]

\* Rows of used_car_price.csv as text cells; an empty cell and the text None
\* are both read as missing.
RowPool ==
  {Row("Petrol", "Audi", "Manual", "Red", "", "Yes"),
   Row("Diesel", "BMW", "Automatic", "Blue", "Full", "No"),
   Row("Petrol", "BMW", "Manual", "Red", "None", "No"),
   Row("", "Audi", "Manual", "Blue", "Partial", "Yes"),
   Row("Diesel", "Audi", "Automatic", "Red", "Partial", "Yes")}

RECURSIVE SeqsUpTo(_, _)
SeqsUpTo(S, n) ==
  IF n = 0 THEN {<<>>}
  ELSE LET shorter == SeqsUpTo(S, n - 1)
       IN shorter \cup {Append(q, x) : q \in {r \in shorter : Len(r) = n - 1}, x \in S}

\* Datasets of the sessions that are explored interaction by interaction: one on
\* which the form renders, one with a missing fuel_type, one without any
\* missing service_history.
SessionRows ==
  {<<Row("Petrol", "Audi", "Manual", "Red", "", "Yes"),
     Row("Diesel", "BMW", "Automatic", "Blue", "Full", "No")>>,
   <<Row("", "Audi", "Manual", "Blue", "Partial", "Yes"),
     Row("Petrol", "Audi", "Manual", "Red", "", "Yes")>>,
   <<Row("Diesel", "BMW", "Automatic", "Blue", "Full", "No"),
     Row("Diesel", "Audi", "Automatic", "Red", "Partial", "Yes")>>}

FileStates == {"ok", "missing", "corrupt"}

SessionDisks ==
  {[model |-> m, csv |-> c, rows |-> r] :
     m \in FileStates, c \in FileStates, r \in SessionRows}

DatasetDisks ==
  {[model |-> "ok", csv |-> "ok", rows |-> r] : r \in SeqsUpTo(RowPool, MaxRows)}

\* What a user may try to enter into a control.
Attempts(name) ==
  CASE name = "make_year" -> (MinYear - 1)..(MaxYear + 1)
    [] name = "mileage_kmpl" -> {MinMileage - 1, MinMileage, DefaultMileage, MaxMileage, MaxMileage + 1}
    [] name = "engine_cc" -> {MinEngine - 1, MinEngine, DefaultEngine, MaxEngine, MaxEngine + 1}
    [] name = "owner_count" -> 0..(Len(OwnerOptions) + 1)
    [] name = "accidents_reported" -> (MinAccidents - 1)..(MaxAccidents + 1)
    [] OTHER -> Labels \cup {NaN, PyNone}

-----------------------------------------------------------------------------
(* The session *)

EmptyView ==
  [errors |-> <<>>, inputs |-> {}, button |-> FALSE, prediction |-> FALSE,
   exception |-> NoExc]

InitWith(d) ==
  /\ disk = d
  /\ cache = NoPair
  /\ loaded = NoPair
  /\ loads = 0
  /\ widgets = NewWidgets
  /\ opts = NoOpts
  /\ clicked = FALSE
  /\ pc = "start"
  /\ view = EmptyView
  /\ input_data = <<>>
  /\ calls = 0
  /\ attempts = 0
  /\ edits = 0

Init == \E d \in SessionDisks : InitWith(d)

InitDatasets == \E d \in DatasetDisks : InitWith(d)

\* Line 28: the cached pair, or the body of load_model_and_data on a miss.
RunLoad ==
  /\ pc = "start"
  /\ IF cache # NoPair
     THEN /\ pc' = "loaded"
          /\ UNCHANGED <<cache, loaded, loads, view, attempts>>
     ELSE LET r == load_model_and_data(disk)
          IN /\ attempts' = attempts + 1
             /\ cache' = r.pair
             /\ loaded' = r.pair
             /\ loads' = IF r.pair # NoPair THEN loads + 1 ELSE loads
             /\ view' = [view EXCEPT !.errors = r.errors, !.exception = r.escaped]
             /\ pc' = IF r.escaped # NoExc THEN "crashed"
                      ELSE IF r.stop THEN "halted" ELSE "loaded"
  /\ UNCHANGED <<disk, widgets, opts, clicked, input_data, calls, edits>>

\* Lines 32-121: normalise the cached frame in place, derive the option
\* lists, create the input controls.
RunForm ==
  /\ pc = "loaded"
  /\ LET df == fillna(cache.df)
         cats == categorical_cols_info(df)
         form == RenderInputs(cats.info, widgets)
     IN /\ cache' = [cache EXCEPT !.df = df]
        /\ opts' = cats.info
        /\ IF cats.escaped # NoExc
           THEN /\ view' = [view EXCEPT !.exception = cats.escaped]
                /\ pc' = "crashed"
                /\ UNCHANGED widgets
           ELSE /\ widgets' = form.widgets
                /\ view' = [view EXCEPT !.inputs = form.inputs,
                                        !.exception = form.escaped]
                /\ pc' = IF form.escaped # NoExc THEN "crashed" ELSE "at_button"
  /\ UNCHANGED <<disk, loaded, loads, clicked, input_data, calls, attempts, edits>>

\* Lines 124-146: the button, and on a click the record for model.predict.
RunButton ==
  /\ pc = "at_button"
  /\ view' = [view EXCEPT !.button = TRUE]
  /\ IF clicked
     THEN /\ input_data' = InputData(widgets)
          /\ calls' = calls + 1
          /\ pc' = "predicting"
     ELSE /\ pc' = "idle"
          /\ UNCHANGED <<input_data, calls>>
  /\ UNCHANGED <<disk, cache, loaded, loads, widgets, opts, clicked, attempts, edits>>

\* Predict with an except clause that also clears the session's widget state.
Predict_ResetsInputs ==
  /\ pc = "predicting"
  /\ \E outcome \in PredictOutcomes :
       LET h == PredictHandler(outcome)
       IN /\ view' = [view EXCEPT !.prediction = h.prediction,
                                   !.errors = view.errors \o h.errors,
                                   !.exception = h.escaped]
          /\ widgets' = IF h.prediction THEN widgets
                        ELSE [widgets EXCEPT !["make_year"] = DefaultYear]
          /\ pc' = IF h.escaped # NoExc THEN "crashed" ELSE "idle"
  /\ UNCHANGED <<disk, cache, loaded, loads, opts, clicked, input_data,
                 calls, attempts, edits>>

\* Predict that calls model.predict again when it raised.
Predict_RetryOnError ==
  /\ pc = "predicting"
  /\ \E outcome \in PredictOutcomes :
       LET h == PredictHandler(outcome)
       IN IF h.prediction \/ calls > 1
          THEN /\ view' = [view EXCEPT !.prediction = h.prediction,
                                        !.errors = view.errors \o h.errors,
                                        !.exception = h.escaped]
               /\ pc' = IF h.escaped # NoExc THEN "crashed" ELSE "idle"
               /\ UNCHANGED calls
          ELSE /\ calls' = calls + 1
               /\ UNCHANGED <<view, pc>>
  /\ UNCHANGED <<disk, cache, loaded, loads, widgets, opts, clicked, input_data,
                 attempts, edits>>

\* Lines 148-154: model.predict returns or raises, and the handler renders.
Predict ==
  /\ pc = "predicting"
  /\ \E outcome \in PredictOutcomes :
       LET h == PredictHandler(outcome)
       IN /\ view' = [view EXCEPT !.prediction = h.prediction,
                                   !.errors = view.errors \o h.errors,
                                   !.exception = h.escaped]
          /\ pc' = IF h.escaped # NoExc THEN "crashed" ELSE "idle"
  /\ UNCHANGED <<disk, cache, loaded, loads, widgets, opts, clicked, input_data,
                 calls, attempts, edits>>

\* No script is running: the browser shows what the last run rendered.
Resting == pc \in {"idle", "halted", "crashed"}

\* An interaction starts a fresh script run.
NewRun ==
  /\ pc' = "start"
  /\ view' = EmptyView
  /\ input_data' = <<>>
  /\ calls' = 0
  /\ attempts' = 0
  /\ UNCHANGED <<disk, cache, loaded, loads, opts>>

\* The user changes the value of one rendered control.
Edit ==
  /\ Resting
  /\ edits < MaxEdits
  /\ \E name \in view.inputs :
       \E v \in Attempts(name) :
         /\ v \in Domain(name, opts)
         /\ v # widgets[name]
         /\ widgets' = [widgets EXCEPT ![name] = v]
  /\ clicked' = FALSE
  /\ edits' = edits + 1
  /\ NewRun

\* The user clicks "Predict Price".
Click ==
  /\ Resting
  /\ view.button
  /\ clicked' = TRUE
  /\ NewRun
  /\ UNCHANGED <<widgets, edits>>

\* The user asks for a rerun of the script.
Rerun ==
  /\ Resting
  /\ clicked' = FALSE
  /\ NewRun
  /\ UNCHANGED <<widgets, edits>>

Next == RunLoad \/ RunForm \/ RunButton \/ Predict \/ Edit \/ Click \/ Rerun

Spec == Init /\ [][Next]_vars

NextDatasets == RunLoad \/ RunForm \/ RunButton \/ Rerun

SpecDatasets == InitDatasets /\ [][NextDatasets]_vars


-----------------------------------------------------------------------------
(* Properties *)

AllInputs == Range(InputOrder)

\* The submit handler of the current run has finished.
HandlerEnded == calls = 1 /\ pc # "predicting"

\* The value the record handed to model.predict holds under a column name.
FieldOf(rec, name) == (CHOOSE i \in DOMAIN rec : rec[i].name = name)

\* C1: every submit ends in exactly one of two outcomes, the prediction box or
\* a visible error message, and no exception escapes the handler, whatever
\* model.predict returned or whichever error it raised.
C1_SubmitEndsInPredictionOrError ==
  HandlerEnded =>
    /\ pc = "idle"
    /\ view.exception = NoExc
    /\ view.prediction <=> (view.errors = <<>>)

C1_Witness ==
  /\ HandlerEnded
  /\ edits > 0
  /\ view.errors # <<>>
  /\ ~view.prediction

\* C2: the record handed to model.predict has exactly the 11 fields car_age,
\* mileage_kmpl, engine_cc, fuel_type, owner_count, brand, transmission, color,
\* service_history, accidents_reported, insurance_valid, in this order, and
\* every field holds the value of the input control of the same name (car_age
\* the one derived from make_year).
C2_RecordFieldsInOrder ==
  calls = 1 =>
    /\ Len(input_data) = 11
    /\ [i \in 1..Len(input_data) |-> input_data[i].name] =
         <<"car_age", "mileage_kmpl", "engine_cc", "fuel_type", "owner_count",
           "brand", "transmission", "color", "service_history",
           "accidents_reported", "insurance_valid">>
    /\ \A i \in 1..Len(input_data) :
         IF input_data[i].name = "car_age"
         THEN input_data[i].value + widgets["make_year"] = 2025
         ELSE input_data[i].value = widgets[input_data[i].name]

C2_Witness ==
  /\ pc = "predicting"
  /\ widgets["owner_count"] = 5
  /\ widgets["accidents_reported"] = 3
  /\ input_data[5].value = 5
  /\ input_data[10].value = 3

\* C3: for every make_year of 1995..2023 the car_age of the submitted record
\* is 2025 - make_year.
C3_CarAgeIs2025MinusMakeYear ==
  calls = 1 =>
    /\ widgets["make_year"] \in 1995..2023
    /\ input_data[FieldOf(input_data, "car_age")].value = 2025 - widgets["make_year"]

C3_Witness ==
  /\ pc = "predicting"
  /\ widgets["make_year"] = 1995
  /\ input_data[1].value = 30

\* C10: in every record passed to model.predict car_age is in 2..30, engine_cc
\* in 800..5000, owner_count in 1..5, accidents_reported in 0..5, and every
\* categorical value is one of the options derived from the dataset.
C10_RecordWithinDomains ==
  calls = 1 =>
    LET val(name) == input_data[FieldOf(input_data, name)].value
    IN /\ val("car_age") \in 2..30
       /\ val("engine_cc") \in 800..5000
       /\ val("owner_count") \in 1..5
       /\ val("accidents_reported") \in 0..5
       /\ \A c \in Range(CategoricalCols) : val(c) \in Range(opts[c])

C10_Witness ==
  /\ pc = "predicting"
  /\ input_data[1].value = 2
  /\ input_data[3].value = 5000


\* The values of a column of the dataset as read, missing service_history
\* counted as "None".
ColumnValues(df, c) ==
  {IF c = "service_history" /\ df[i][c] = NaN THEN "None" ELSE df[i][c] :
     i \in 1..Len(df)}

C5_LoadFailureHalts ==
  ((disk.model # "ok" \/ disk.csv # "ok") /\ pc # "start") =>
    /\ pc = "halted"
    /\ view.errors # <<>>
    /\ view.inputs = {}
    /\ ~view.button
    /\ ~view.prediction
    /\ calls = 0
    /\ attempts = 1
    /\ cache = NoPair

C5_Witness ==
  /\ pc = "halted"
  /\ disk.model = "ok"
  /\ disk.csv = "missing"
  /\ Len(view.errors) = 2

\* The prediction of the current run failed and the handler has finished.
PredictionFailed == HandlerEnded /\ ~view.prediction

\* C6: when model.predict raises, the error is shown, no prediction is shown,
\* the form and the button stay rendered, and no step of the submit's run
\* changes the value an input control holds.
C6_FailureKeepsInputs ==
  /\ [](PredictionFailed =>
          /\ pc = "idle"
          /\ view.errors # <<>>
          /\ view.inputs = AllInputs
          /\ view.button)
  /\ [][(clicked /\ clicked') => widgets' = widgets]_vars

C6_Witness ==
  /\ PredictionFailed
  /\ edits = MaxEdits
  /\ widgets["make_year"] = 2023
  /\ view.errors # <<>>

\* The state of the session in the state machine of the presentation.
Phase ==
  IF pc = "predicting" THEN "Predicting"
  ELSE IF pc \in {"halted", "crashed"} THEN "Halted"
  ELSE IF view.prediction THEN "Displayed"
  ELSE IF calls = 1 /\ pc = "idle" THEN "ErrorDisplayed"
  ELSE "Idle"

PhaseSteps ==
  {<<"Idle", "Idle">>, <<"Idle", "Predicting">>, <<"Idle", "Halted">>,
   <<"Predicting", "Displayed">>, <<"Predicting", "ErrorDisplayed">>,
   <<"Displayed", "Idle">>, <<"ErrorDisplayed", "Idle">>, <<"Halted", "Idle">>}

\* C7: the session moves Idle -> Predicting -> Displayed or ErrorDisplayed ->
\* Idle; model.predict is called only in a run started by a click, once, at
\* the step that enters Predicting; a finished run of a click has called it
\* exactly once, and from Displayed and ErrorDisplayed a new click is possible.
C7_SessionStateMachine ==
  /\ [][/\ <<Phase, Phase'>> \in PhaseSteps
        /\ calls' # calls =>
             \/ calls' = 0 /\ pc' = "start"
             \/ calls' = calls + 1 /\ clicked /\ Phase = "Idle" /\ Phase' = "Predicting"
        /\ (Phase # "Predicting" /\ Phase' = "Predicting") => calls' = calls + 1]_vars
  /\ [](Phase = "Predicting" => calls = 1)
  /\ [](pc = "idle" => calls = (IF clicked THEN 1 ELSE 0))
  /\ [](Phase \in {"Displayed", "ErrorDisplayed"} => view.button /\ calls = 1)

C7_Witness ==
  /\ Phase = "ErrorDisplayed"
  /\ edits = MaxEdits
  /\ view.button

\* The cached dataset holds no missing service_history.
Normalised(df) == \A i \in 1..Len(df) : df[i]["service_history"] # NaN

\* C8 as stated: the cached pair is always the pair as it was loaded.
C8_CachedPairIsReadOnly == cache = loaded

\* C8, amended: the pair is loaded at most once and the cached model never
\* changes; the cached dataset differs from the loaded one at most by "None"
\* in place of missing service_history cells, is normalised once a run is past
\* line 32, and once normalised no step changes the cached pair.
C8_CacheOnlyNormalised ==
  /\ [](/\ loads <= 1
        /\ (loads = 1) <=> (cache # NoPair)
        /\ cache.model = loaded.model
        /\ Len(cache.df) = Len(loaded.df)
        /\ \A i \in 1..Len(cache.df) : \A c \in Range(CategoricalCols) :
             \/ cache.df[i][c] = loaded.df[i][c]
             \/ /\ c = "service_history"
                /\ loaded.df[i][c] = NaN
                /\ cache.df[i][c] = "None"
        /\ (cache # NoPair /\ pc \notin {"start", "loaded"}) => Normalised(cache.df))
  /\ [][/\ loaded # NoPair => loaded' = loaded
        /\ (cache # NoPair /\ Normalised(cache.df)) => cache' = cache]_vars

C8_Witness ==
  /\ cache # NoPair
  /\ pc = "idle"
  /\ clicked
  /\ loaded.df[1]["service_history"] = NaN
  /\ cache.df[1]["service_history"] = "None"

\* The datasets on which lines 30-121 raise nothing.
Renderable(df) ==
  /\ \E i \in 1..Len(df) : df[i]["service_history"] = NaN
  /\ \E i \in 1..Len(df) : df[i]["insurance_valid"] = "Yes"
  /\ \A c \in Range(CategoricalCols) \ {"service_history"} :
       \A i, j \in 1..Len(df) : df[i][c] = NaN => df[j][c] = NaN

\* The selections the form starts with.
FormDefaults ==
  /\ view.inputs = AllInputs
  /\ \A c \in {"fuel_type", "brand", "transmission", "color"} :
       opts[c] # <<>> /\ widgets[c] = opts[c][1]
  /\ widgets["service_history"] = "None"
  /\ widgets["insurance_valid"] = "Yes"

\* The script run is past the input fields (line 121) or has ended before them.
PastForm == pc \notin {"start", "loaded"}

====
